---- MODULE Spec2Model ----
(***************************************************************************)
(* Conversation persistence and resumable interruption of the chat client  *)
(* in src/src/main.rs: the transcript file conversation_log.jsonl, the     *)
(* sidecar file tool_call.json, the in-memory HistoryManager and the       *)
(* control flow of main, with process crashes and restarts.                *)
(***************************************************************************)
EXTENDS Integers, Sequences, FiniteSets, TLC

VARIABLES
    logExists,   \* conversation_log.jsonl exists on disk
    log,         \* its lines, in file order (each a JSON value)
    sidecar,     \* tool_call.json: <<>> when absent, <<text>> when present
    pc,          \* position of the process in main, or how it stopped
    fault,       \* which unwrap()/todo!() panicked, "none" otherwise
    history,     \* HistoryManager.history (Vec<Message>)
    loaded,      \* the transcript this process loaded at its start
    resume,      \* the local `resume` of main
    line,        \* the local `line` of main (last line read from stdin)
    stream,      \* chunks the provider's stream has still to deliver
    chunk,       \* the local `chunk` of the stream loop: <<>> or <<chunk>>
    turnStream,  \* the whole stream of the current turn, as delivered
    turnBase,    \* number of transcript lines when the turn was requested
    sent,        \* chat_history of the last CompletionRequest
    nReads,      \* lines of user input read by this process
    nRequests,   \* completion requests issued by this process
    appended,    \* every message whose append has returned, over all runs
    prevExit,    \* how the previous process stopped
    written      \* tool_call.json as the program's last write of it left it

vars == <<logExists, log, sidecar, pc, fault, history, loaded, resume, line, stream,
          chunk, turnStream, turnBase, sent, nReads, nRequests, appended,
          prevExit, written>>

disk == <<logExists, log, sidecar>>
ghost == <<appended, prevExit, written>>

----------------------------------------------------------------------------
(* Bounds of the model *)

MaxLog == 4
MaxChunks == 3

----------------------------------------------------------------------------
(* Values *)

NULL == "null"

\* A text is a sequence of characters.
Whitespace == {" "}
InputLines == {<<>>, <<" ">>, <<"h">>, <<" ", "h">>}
ModelTexts == {<<"a">>, <<"b">>}
ResultTexts == {<<"sunny">>}

\* rig::message::ToolCall { id, call_id: Option<String>, function { name, arguments } }
ToolCalls ==
    { [id |-> "t1", call_id |-> NULL, name |-> "get_weather", arguments |-> "Paris"],
      [id |-> "t2", call_id |-> "c2", name |-> "get_weather", arguments |-> "Oslo"] }

\* The four message variants of the transcript.
UserText(t) == [kind |-> "UserText", text |-> t]
UserToolResult(id, call_id, content) ==
    [kind |-> "UserToolResult", id |-> id, call_id |-> call_id, content |-> content]
AssistantText(t) == [kind |-> "AssistantText", text |-> t]
AssistantToolCall(c) ==
    [kind |-> "AssistantToolCall", id |-> c.id, call_id |-> c.call_id,
     name |-> c.name, arguments |-> c.arguments]

\* What a line that is no Message parses to.
Malformed == [kind |-> "Malformed"]

\* StreamedAssistantContent, and the items of the stream (Ok(chunk) or Err).
TextChunk(t) == [kind |-> "Text", text |-> t]
ToolCallChunk(c) == [kind |-> "ToolCall", call |-> c]
FinalChunk == [kind |-> "Final"]
OtherChunk == [kind |-> "Reasoning"]
Chunks == {TextChunk(t) : t \in ModelTexts} \cup {ToolCallChunk(c) : c \in ToolCalls}
            \cup {FinalChunk, OtherChunk}
OkItem(ch) == [ok |-> TRUE, chunk |-> ch]
ErrItem == [ok |-> FALSE]
StreamItems == {OkItem(ch) : ch \in Chunks} \cup {ErrItem}

SeqsUpTo(S, n) == UNION {[1..k -> S] : k \in 0..n}

Min(a, b) == IF a < b THEN a ELSE b

IsPrefix(s, t) == Len(s) <= Len(t) /\ SubSeq(t, 1, Len(s)) = s

Last(s) == s[Len(s)]

Max(a, b) == IF a > b THEN a ELSE b

----------------------------------------------------------------------------
(* Serialization: one Message <-> one JSON line of conversation_log.jsonl *)

\* Faulty variant of EscapeText: the characters are written as they are.
EscapeTextRaw(t) == t

\* serde_json's string writer: a line feed is written as \n and a backslash as
\* \\, so that the text of a message never breaks the line it is on.
RECURSIVE EscapeText(_)
EscapeText(t) ==
    IF t = <<>> THEN <<>>
    ELSE (IF Head(t) = "\n" THEN <<"\\", "n">>
          ELSE IF Head(t) = "\\" THEN <<"\\", "\\">>
          ELSE <<Head(t)>>) \o EscapeText(Tail(t))

\* serde_json's string reader accepts no raw line feed and no escape but the
\* ones written above.
RECURSIVE ValidJsonString(_)
ValidJsonString(t) ==
    IF t = <<>> THEN TRUE
    ELSE IF Head(t) = "\n" THEN FALSE
    ELSE IF Head(t) = "\\"
         THEN /\ Len(t) >= 2
              /\ t[2] \in {"n", "\\"}
              /\ ValidJsonString(SubSeq(t, 3, Len(t)))
    ELSE ValidJsonString(Tail(t))

RECURSIVE UnescapeText(_)
UnescapeText(t) ==
    IF t = <<>> THEN <<>>
    ELSE IF Head(t) = "\\" /\ Len(t) >= 2
         THEN <<IF t[2] = "n" THEN "\n" ELSE t[2]>> \o UnescapeText(SubSeq(t, 3, Len(t)))
    ELSE <<Head(t)>> \o UnescapeText(Tail(t))

JsonText(t) == [type |-> "text", text |-> EscapeText(t)]

\* Faulty variant of Serialize: the call_id of a tool result is not written out.
SerializeNoCallId(m) ==
    CASE m.kind = "UserText" ->
            [role |-> "user", content |-> <<JsonText(m.text)>>]
      [] m.kind = "UserToolResult" ->
            [role |-> "user",
             content |-> <<[type |-> "toolresult", id |-> m.id, call_id |-> NULL,
                            content |-> <<JsonText(m.content)>>]>>]
      [] m.kind = "AssistantText" ->
            [role |-> "assistant", id |-> NULL, content |-> <<JsonText(m.text)>>]
      [] m.kind = "AssistantToolCall" ->
            [role |-> "assistant", id |-> NULL,
             content |-> <<[id |-> m.id, call_id |-> m.call_id,
                            function |-> [name |-> m.name, arguments |-> m.arguments]]>>]

\* serde_json::to_string(&message)
Serialize(m) ==
    CASE m.kind = "UserText" ->
            [role |-> "user", content |-> <<JsonText(m.text)>>]
      [] m.kind = "UserToolResult" ->
            [role |-> "user",
             content |-> <<[type |-> "toolresult", id |-> m.id, call_id |-> m.call_id,
                            content |-> <<JsonText(m.content)>>]>>]
      [] m.kind = "AssistantText" ->
            [role |-> "assistant", id |-> NULL, content |-> <<JsonText(m.text)>>]
      [] m.kind = "AssistantToolCall" ->
            [role |-> "assistant", id |-> NULL,
             content |-> <<[id |-> m.id, call_id |-> m.call_id,
                            function |-> [name |-> m.name, arguments |-> m.arguments]]>>]

IsJsonText(c) ==
    /\ DOMAIN c = {"type", "text"}
    /\ c.type = "text"
    /\ ValidJsonString(c.text)

\* serde_json::from_str::<Message>(&line); Malformed stands for Err
Deserialize(json) ==
    IF DOMAIN json = {"role", "content"} /\ json.role = "user" /\ Len(json.content) = 1
    THEN LET c == json.content[1] IN
         IF IsJsonText(c) THEN UserText(UnescapeText(c.text))
         ELSE IF /\ DOMAIN c = {"type", "id", "call_id", "content"}
                 /\ c.type = "toolresult"
                 /\ Len(c.content) = 1
                 /\ IsJsonText(c.content[1])
              THEN UserToolResult(c.id, c.call_id, UnescapeText(c.content[1].text))
              ELSE Malformed
    ELSE IF /\ DOMAIN json = {"role", "id", "content"}
            /\ json.role = "assistant"
            /\ Len(json.content) = 1
    THEN LET c == json.content[1] IN
         IF IsJsonText(c) THEN AssistantText(UnescapeText(c.text))
         ELSE IF /\ DOMAIN c = {"id", "call_id", "function"}
                 /\ DOMAIN c.function = {"name", "arguments"}
              THEN AssistantToolCall([id |-> c.id, call_id |-> c.call_id,
                                      name |-> c.function.name,
                                      arguments |-> c.function.arguments])
              ELSE Malformed
    ELSE Malformed

\* Faulty variant of ParseLines: lines that fail to parse are skipped.
ParseLinesSkipBad(lines) ==
    LET good == SelectSeq(lines, LAMBDA l : Deserialize(l) # Malformed) IN
    [ok |-> TRUE, history |-> [i \in 1..Len(good) |-> Deserialize(good[i])]]

\* reader.lines().map(|line| serde_json::from_str(..).unwrap()).collect():
\* the first line that fails to parse panics, so no partial history results.
ParseLines(lines) ==
    LET msgs == [i \in 1..Len(lines) |-> Deserialize(lines[i])] IN
    IF \A i \in 1..Len(lines) : msgs[i] # Malformed
    THEN [ok |-> TRUE, history |-> msgs]
    ELSE [ok |-> FALSE, history |-> <<>>]

\* Faulty variant of OpenLog: the writer is opened with File::create in both branches.
OpenLogTruncating(exists, lines) == <<>>

\* What conversation_log.jsonl holds once main has its writer: an existing file
\* is reopened with append(true), a missing one is made by File::create.
OpenLog(exists, lines) == IF exists THEN lines ELSE <<>>

\* Faulty variant of WriteLine: the line stays in a buffer that is never flushed.
WriteLineBuffered(lines, m) == lines

\* write_all(format!("{}\n", to_string(&message))) followed by flush()
WriteLine(lines, m) == Append(lines, Serialize(m))

\* serde_json::to_writer_pretty(&mut tool_call_file, &call): the text of the file
PrettyJson(c) == <<"{", "\n", "id", c.id, "call_id", c.call_id,
                   "name", c.name, "arguments", c.arguments, "\n", "}">>

\* Faulty variant of IsBlank: is_empty without trim.
IsBlankNoTrim(t) == t = <<>>

\* str::trim followed by is_empty
RECURSIVE TrimStart(_)
TrimStart(t) == IF t # <<>> /\ Head(t) \in Whitespace THEN TrimStart(Tail(t)) ELSE t
RECURSIVE TrimEnd(_)
TrimEnd(t) ==
    IF t # <<>> /\ Last(t) \in Whitespace THEN TrimEnd(SubSeq(t, 1, Len(t) - 1)) ELSE t
Trim(t) == TrimEnd(TrimStart(t))
IsBlank(t) == Trim(t) = <<>>

\* Faulty variant of MessageOfChunk: Final is stored as an empty assistant text.
MessageOfChunkFinalStored(ch) ==
    CASE ch.kind = "Text" -> <<AssistantText(ch.text)>>
      [] ch.kind = "ToolCall" -> <<AssistantToolCall(ch.call)>>
      [] ch.kind = "Final" -> <<AssistantText(<<>>)>>

\* The match of handle_completion: the message a chunk is stored as, if any.
MessageOfChunk(ch) ==
    CASE ch.kind = "Text" -> <<AssistantText(ch.text)>>
      [] ch.kind = "ToolCall" -> <<AssistantToolCall(ch.call)>>
      [] ch.kind = "Final" -> <<>>

\* Faulty variant of EndsWithToolCall: the pending call is never detected.
EndsWithToolCallNever(h) == FALSE

\* `if let Some(Message::Assistant { content, .. }) = history.last()
\*  && let AssistantContent::ToolCall(tool_call) = content.first()`
EndsWithToolCall(h) == h # <<>> /\ Last(h).kind = "AssistantToolCall"

\* Faulty variant of ToolResultFor: id and call_id of the call change places.
ToolResultForSwapped(tc, text) == UserToolResult(tc.call_id, tc.id, text)

\* The ToolResult main builds for the tool call `tc` from the sidecar's text.
ToolResultFor(tc, text) == UserToolResult(tc.id, tc.call_id, text)

----------------------------------------------------------------------------
(* The process *)

Running == {"Load", "Resuming", "LoopTop", "AwaitingInput", "GotLine",
            "Requesting", "Streaming", "AppendCall"}
Stopped == {"Ended", "Panicked", "Crashed"}

Init ==
    /\ logExists = FALSE
    /\ log = <<>>
    /\ sidecar = <<>>
    /\ pc = "Load"
    /\ fault = "none"
    /\ history = <<>>
    /\ loaded = <<>>
    /\ resume = FALSE
    /\ line = <<>>
    /\ stream = <<>>
    /\ chunk = <<>>
    /\ turnStream = <<>>
    /\ turnBase = 0
    /\ sent = <<>>
    /\ nReads = 0
    /\ nRequests = 0
    /\ appended = <<>>
    /\ prevExit = "none"
    /\ written = <<>>

\* A failed unwrap() or a todo!(): the process dies where it stands.
Panic(why) ==
    /\ pc' = "Panicked"
    /\ fault' = why

\* Faulty variant of AppendMessage: the message is written to the store but
\* not pushed to the history in memory.
AppendMessageNoPush(m) ==
    /\ log' = WriteLine(log, m)
    /\ history' = history
    /\ appended' = Append(appended, m)

\* One of the three append paths of HistoryManager: write the line, flush,
\* then push the message on the in-memory history.
AppendMessage(m) ==
    /\ log' = WriteLine(log, m)
    /\ history' = Append(history, m)
    /\ appended' = Append(appended, m)

\* main, lines 97-115: load the transcript and open the writer.
Load ==
    /\ pc = "Load"
    /\ IF logExists
       THEN LET parsed == ParseLines(log) IN
            IF parsed.ok
            THEN /\ history' = parsed.history
                 /\ log' = OpenLog(logExists, log)
                 /\ pc' = "Resuming"
                 /\ UNCHANGED fault
            ELSE /\ Panic("CorruptHistory")
                 /\ UNCHANGED <<history, log>>
       ELSE /\ history' = <<>>
            /\ log' = OpenLog(logExists, log)
            /\ pc' = "Resuming"
            /\ UNCHANGED fault
    /\ loaded' = history'
    /\ logExists' = TRUE
    /\ UNCHANGED <<sidecar, resume, line, stream, chunk, turnStream, turnBase, sent,
                   nReads, nRequests, ghost>>

\* What a tool_call.json holds when its bytes are no UTF-8 text.
InvalidUtf8 == <<"\\xff">>

\* Faulty variant of ReadSidecar: a file that cannot be read counts as an empty
\* result (unwrap_or_default in place of unwrap).
ReadSidecarOrEmpty(sc) == IF sc = <<>> \/ sc[1] = InvalidUtf8 THEN <<<<>>>> ELSE sc

\* main, lines 145-146: File::open("tool_call.json").unwrap() and
\* read_to_string(..).unwrap(); <<>> stands for either unwrap failing.
ReadSidecar(sc) == IF sc = <<>> \/ sc[1] = InvalidUtf8 THEN <<>> ELSE sc

\* main, lines 137-158: a transcript ending in a tool call is answered with the
\* text of tool_call.json.
Resuming ==
    /\ pc = "Resuming"
    /\ IF EndsWithToolCall(history)
       THEN IF ReadSidecar(sidecar) = <<>>
            THEN /\ Panic("SidecarMissing")
                 /\ UNCHANGED <<log, history, appended, resume>>
            ELSE /\ AppendMessage(ToolResultFor(Last(history), ReadSidecar(sidecar)[1]))
                 /\ resume' = TRUE
                 /\ pc' = "LoopTop"
                 /\ UNCHANGED fault
       ELSE /\ resume' = FALSE
            /\ pc' = "LoopTop"
            /\ UNCHANGED <<log, history, appended, fault>>
    /\ UNCHANGED <<logExists, sidecar, loaded, line, stream, chunk, turnStream, turnBase,
                   sent, nReads, nRequests, prevExit, written>>

\* Faulty variant of LoopTop: the resume flag is never put back to false.
LoopTopNoReset ==
    /\ pc = "LoopTop"
    /\ pc' = IF resume THEN "Requesting" ELSE "AwaitingInput"
    /\ UNCHANGED <<disk, fault, history, loaded, resume, line, stream, chunk, turnStream,
                   turnBase, sent, nReads, nRequests, ghost>>

\* main, lines 160-163: the head of 'outer.
LoopTop ==
    /\ pc = "LoopTop"
    /\ IF resume
       THEN /\ resume' = FALSE
            /\ pc' = "Requesting"
       ELSE /\ pc' = "AwaitingInput"
            /\ UNCHANGED resume
    /\ UNCHANGED <<disk, fault, history, loaded, line, stream, chunk, turnStream,
                   turnBase, sent, nReads, nRequests, ghost>>

\* main, lines 164-166: prompt and read one line; a closed stdin panics.
ReadLine ==
    /\ pc = "AwaitingInput"
    /\ \/ /\ Panic("InputClosed")
          /\ UNCHANGED <<line, nReads>>
       \/ \E l \in InputLines :
            /\ (Len(log) < MaxLog \/ \A i \in 1..Len(l) : l[i] = " ")
            /\ line' = l
            /\ nReads' = nReads + 1
            /\ pc' = "GotLine"
            /\ UNCHANGED fault
    /\ UNCHANGED <<disk, history, loaded, resume, stream, chunk, turnStream, turnBase,
                   sent, nRequests, ghost>>

\* Faulty variant of HandleLine: the line that was read is not added to the
\* history before the request.
HandleLineNoAppend ==
    /\ pc = "GotLine"
    /\ pc' = IF IsBlank(line) THEN "Ended" ELSE "Requesting"
    /\ UNCHANGED <<disk, fault, history, loaded, resume, line, stream, chunk, turnStream,
                   turnBase, sent, nReads, nRequests, ghost>>

\* main, lines 167-171: a blank line ends the session, any other is appended.
HandleLine ==
    /\ pc = "GotLine"
    /\ IF IsBlank(line)
       THEN /\ pc' = "Ended"
            /\ UNCHANGED <<log, history, appended>>
       ELSE /\ AppendMessage(UserText(line))
            /\ pc' = "Requesting"
    /\ UNCHANGED <<logExists, sidecar, fault, loaded, resume, line, stream, chunk,
                   turnStream, turnBase, sent, nReads, nRequests, prevExit, written>>

\* main, lines 174-188: the completion request with the whole history; the
\* provider answers with a stream of chunks or fails. get_history (line 88)
\* panics on an empty history, before anything is sent.
Request ==
    /\ pc = "Requesting"
    /\ IF history = <<>>
       THEN /\ Panic("EmptyHistory")
            /\ UNCHANGED <<stream, sent, nRequests, turnStream, turnBase>>
       ELSE /\ \/ /\ Panic("ProviderFailure")
                  /\ stream' = <<>>
               \/ /\ stream' \in SeqsUpTo(StreamItems,
                                          Min(MaxChunks, Max(0, MaxLog - Len(log))))
                  /\ pc' = "Streaming"
                  /\ UNCHANGED fault
            /\ sent' = history
            /\ nRequests' = nRequests + 1
            /\ turnStream' = stream'
            /\ turnBase' = Len(log)
    /\ UNCHANGED <<disk, history, loaded, resume, line, chunk, nReads, ghost>>

\* Faulty variant of WriteSidecar: a tool_call.json that exists is not replaced
\* (File::create_new in place of File::create).
WriteSidecarKeepsOld(c) == IF sidecar = <<>> THEN <<PrettyJson(c)>> ELSE sidecar

\* Faulty variant of WriteSidecar: tool_call.json is left as it was.
WriteSidecarSkipped(c) == sidecar

\* main, lines 203-204: File::create("tool_call.json") and to_writer_pretty.
WriteSidecar(c) == <<PrettyJson(c)>>

\* HistoryManager::handle_completion: Final returns at once, Text and ToolCall
\* are appended.
HandleCompletion(ch) ==
    LET message == MessageOfChunk(ch) IN
    IF message = <<>>
    THEN UNCHANGED <<log, history, appended>>
    ELSE AppendMessage(message[1])

\* Faulty variant of AfterChunk: the loop goes on after a tool call.
AfterChunkNoBreak(was_call) == "Streaming"

\* main, lines 216-219: `break 'outer` after a tool call, else the next chunk.
AfterChunk(was_call) == IF was_call THEN "Ended" ELSE "Streaming"

\* Faulty variant of NextChunk: a chunk of another kind is skipped (`_ => false`
\* in main, `_ => return` in handle_completion) instead of todo!().
NextChunkDropsUnknown ==
    /\ pc = "Streaming"
    /\ IF stream = <<>> \/ ~Head(stream).ok
       THEN /\ pc' = "LoopTop"
            /\ stream' = IF stream = <<>> THEN stream ELSE Tail(stream)
            /\ UNCHANGED <<log, sidecar, history, appended, chunk, fault, written>>
       ELSE LET ch == Head(stream).chunk IN
            /\ stream' = Tail(stream)
            /\ IF ch.kind \notin {"Text", "ToolCall", "Final"}
               THEN UNCHANGED <<log, sidecar, history, appended, chunk, pc, fault,
                                written>>
               ELSE IF ch.kind = "ToolCall"
               THEN /\ sidecar' = <<PrettyJson(ch.call)>>
                    /\ written' = <<PrettyJson(ch.call)>>
                    /\ chunk' = <<ch>>
                    /\ pc' = "AppendCall"
                    /\ UNCHANGED <<log, history, appended, fault>>
               ELSE /\ HandleCompletion(ch)
                    /\ pc' = "Streaming"
                    /\ UNCHANGED <<sidecar, chunk, fault, written>>
    /\ UNCHANGED <<logExists, loaded, resume, line, turnStream, turnBase, sent, nReads,
                   nRequests, prevExit>>

\* main, lines 190-214: take the next item of the stream. The loop is left when
\* the stream ends or yields an error. A tool call is first written to
\* tool_call.json; its append is the next step (AppendCall).
NextChunk ==
    /\ pc = "Streaming"
    /\ IF stream = <<>> \/ ~Head(stream).ok
       THEN /\ pc' = "LoopTop"
            /\ stream' = IF stream = <<>> THEN stream ELSE Tail(stream)
            /\ UNCHANGED <<log, sidecar, history, appended, chunk, fault, written>>
       ELSE LET ch == Head(stream).chunk IN
            /\ stream' = Tail(stream)
            /\ IF ch.kind \notin {"Text", "ToolCall", "Final"}
               THEN /\ Panic("UnsupportedChunk")
                    /\ UNCHANGED <<log, sidecar, history, appended, chunk, written>>
               ELSE IF ch.kind = "ToolCall"
               THEN /\ sidecar' = WriteSidecar(ch.call)
                    /\ written' = WriteSidecar(ch.call)
                    /\ chunk' = <<ch>>
                    /\ pc' = "AppendCall"
                    /\ UNCHANGED <<log, history, appended, fault>>
               ELSE /\ HandleCompletion(ch)
                    /\ pc' = AfterChunk(FALSE)
                    /\ UNCHANGED <<sidecar, chunk, fault, written>>
    /\ UNCHANGED <<logExists, loaded, resume, line, turnStream, turnBase, sent, nReads,
                   nRequests, prevExit>>

\* main, lines 214-219: the tool call is appended and the process ends.
AppendCall ==
    /\ pc = "AppendCall"
    /\ HandleCompletion(chunk[1])
    /\ chunk' = <<>>
    /\ pc' = AfterChunk(TRUE)
    /\ UNCHANGED <<logExists, sidecar, fault, loaded, resume, line, stream, turnStream,
                   turnBase, sent, nReads, nRequests, prevExit, written>>

\* What is left of a process that is gone: nothing of its memory.
NoProcess ==
    /\ fault' = "none"
    /\ history' = <<>>
    /\ loaded' = <<>>
    /\ resume' = FALSE
    /\ line' = <<>>
    /\ stream' = <<>>
    /\ chunk' = <<>>
    /\ turnStream' = <<>>
    /\ turnBase' = 0
    /\ sent' = <<>>
    /\ nReads' = 0
    /\ nRequests' = 0

\* The process is killed, at any point of main; only the files survive.
Crash ==
    /\ pc \in Running
    /\ pc' = "Crashed"
    /\ NoProcess
    /\ UNCHANGED <<disk, appended, prevExit, written>>

\* A fresh invocation of the program.
Restart ==
    /\ pc \in Stopped
    /\ pc' = "Load"
    /\ NoProcess
    /\ prevExit' = pc
    /\ UNCHANGED <<disk, appended, written>>

\* Between two runs the tool is executed out of band and its result replaces
\* the text of tool_call.json.
ToolExecution ==
    /\ pc \in Stopped
    /\ log # <<>>
    /\ \E c \in ToolCalls :
         /\ Last(log) = Serialize(AssistantToolCall(c))
         /\ sidecar = <<PrettyJson(c)>>
    /\ \E r \in ResultTexts : sidecar' = <<r>>
    /\ UNCHANGED <<logExists, log, pc, fault, history, loaded, resume, line, stream,
                   chunk, turnStream, turnBase, sent, nReads, nRequests, ghost>>

Next ==
    \/ Load
    \/ Resuming
    \/ LoopTop
    \/ ReadLine
    \/ HandleLine
    \/ Request
    \/ NextChunk
    \/ AppendCall
    \/ Crash
    \/ Restart
    \/ ToolExecution

Spec == Init /\ [][Next]_vars

\* Lines that are no serialized Message: a cut-off line, and JSON of another shape.
BadLines == { [raw |-> "{\"role\":\"us"], [role |-> "system", content |-> <<>>] }

\* An out-of-band edit of conversation_log.jsonl between two runs damages one
\* line of a store that was sound.
CorruptStore ==
    /\ pc \in Stopped
    /\ logExists
    /\ \A i \in 1..Len(log) : Deserialize(log[i]) # Malformed
    /\ \E i \in 1..Len(log), bad \in BadLines : log' = [log EXCEPT ![i] = bad]
    /\ UNCHANGED <<logExists, sidecar, pc, fault, history, loaded, resume, line, stream,
                   chunk, turnStream, turnBase, sent, nReads, nRequests, ghost>>

NextEdit ==
    \/ Next
    \/ CorruptStore

\* The program in a directory whose transcript file may be edited between runs.
SpecEdit == Init /\ [][NextEdit]_vars

\* Between two runs tool_call.json is lost, or replaced by bytes that are no
\* text, while the call of the last line of the store waits for its result.
LoseSidecar ==
    /\ pc \in Stopped
    /\ log # <<>>
    /\ Deserialize(Last(log)).kind = "AssistantToolCall"
    /\ sidecar # <<>>
    /\ sidecar[1] # InvalidUtf8
    /\ sidecar' \in {<<>>, <<InvalidUtf8>>}
    /\ UNCHANGED <<logExists, log, pc, fault, history, loaded, resume, line, stream,
                   chunk, turnStream, turnBase, sent, nReads, nRequests, ghost>>

NextLost == Next \/ LoseSidecar

SpecLost == Init /\ [][NextLost]_vars

\* ----------------------------------------------------------------------------
\* The codec alone: every Message value is written to an empty store by the
\* append path and read back by load.

MaxCodecLen == 2

CodecTexts ==
    InputLines \cup ModelTexts \cup ResultTexts
        \cup {<<"\n">>, <<"\\", "n">>, <<"a", "\n", "\\">>}

CodecResults ==
    ResultTexts \cup {PrettyJson(c) : c \in ToolCalls} \cup {<<"\\", "\n">>}

Messages ==
    {UserText(t) : t \in CodecTexts}
        \cup {AssistantText(t) : t \in CodecTexts}
        \cup {UserToolResult(id, call_id, t) :
                id \in {"t1", "t2"}, call_id \in {NULL, "c2"}, t \in CodecResults}
        \cup {AssistantToolCall([id |-> id, call_id |-> call_id,
                                 name |-> "get_weather", arguments |-> a]) :
                id \in {"t1", "t2"}, call_id \in {NULL, "c2"}, a \in {"Paris", "Oslo"}}

InitCodec ==
    /\ logExists = FALSE
    /\ log = <<>>
    /\ sidecar = <<>>
    /\ pc = "CodecWrite"
    /\ fault = "none"
    /\ history \in SeqsUpTo(Messages, MaxCodecLen) \ {<<>>}
    /\ loaded = <<>>
    /\ resume = FALSE
    /\ line = <<>>
    /\ stream = <<>>
    /\ chunk = <<>>
    /\ turnStream = <<>>
    /\ turnBase = 0
    /\ sent = <<>>
    /\ nReads = 0
    /\ nRequests = 0
    /\ appended = <<>>
    /\ prevExit = "none"
    /\ written = <<>>

\* lines 42-45, 55-58, 78-81: the next message goes to the store as one line
CodecWrite ==
    /\ pc = "CodecWrite"
    /\ logExists' = TRUE
    /\ log' = WriteLine(log, history[Len(log) + 1])
    /\ appended' = Append(appended, history[Len(log) + 1])
    /\ pc' = IF Len(log') = Len(history) THEN "CodecRead" ELSE "CodecWrite"
    /\ UNCHANGED <<sidecar, fault, history, loaded, resume, line, stream, chunk,
                   turnStream, turnBase, sent, nReads, nRequests, prevExit, written>>

\* lines 97-102: the store is read back line by line
CodecRead ==
    /\ pc = "CodecRead"
    /\ LET r == ParseLines(OpenLog(logExists, log)) IN
       IF r.ok
       THEN loaded' = r.history /\ pc' = "CodecDone" /\ fault' = fault
       ELSE loaded' = loaded /\ pc' = "Panicked" /\ fault' = "CorruptHistory"
    /\ UNCHANGED <<logExists, log, sidecar, history, resume, line, stream, chunk,
                   turnStream, turnBase, sent, nReads, nRequests, appended, prevExit, written>>

NextCodec == CodecWrite \/ CodecRead

SpecCodec == InitCodec /\ [][NextCodec]_vars

----------------------------------------------------------------------------
(* Notions the properties are stated with *)

\* The durable transcript: what the lines of the store parse to.
Transcript == [i \in 1..Len(log) |-> Deserialize(log[i])]

\* The items of the current turn's stream the process has taken so far.
Consumed == SubSeq(turnStream, 1, Len(turnStream) - Len(stream))

\* The last item taken is a tool-call chunk.
TookCall ==
    /\ Consumed # <<>>
    /\ Last(Consumed).ok
    /\ Last(Consumed).chunk.kind = "ToolCall"

NumTextChunks(items) ==
    Cardinality({i \in 1..Len(items) : items[i].ok /\ items[i].chunk.kind = "Text"})

\* The PendingCall a sidecar text records, read back from its JSON.
PendingCallOf(text) ==
    IF Len(text) = 12 /\ text[1] = "{" /\ text[12] = "}"
    THEN [call_id |-> text[6], function_name |-> text[8], arguments |-> text[10]]
    ELSE [call_id |-> "?", function_name |-> "?", arguments |-> "?"]

PendingCallFor(c) ==
    [call_id |-> c.call_id, function_name |-> c.name, arguments |-> c.arguments]

\* This process loaded a transcript whose last message is a tool call.
LoadedPendingCall == loaded # <<>> /\ Last(loaded).kind = "AssistantToolCall"

\* The process has left the resume detection of lines 137-158 behind.
PastResuming ==
    \/ pc \in {"LoopTop", "AwaitingInput", "GotLine", "Requesting", "Streaming",
               "AppendCall", "Ended"}
    \/ pc = "Panicked" /\ fault \in {"InputClosed", "ProviderFailure", "UnsupportedChunk",
                                     "EmptyHistory"}

----------------------------------------------------------------------------
(* C1: a process that loads a transcript ending in a tool call with call_id X
   appends exactly one UserToolResult with call_id X and the call's id, right
   after the loaded transcript, and issues its first completion request, with
   that result as the last message, before it reads any line of user input. *)
C1_ResumeAnswersPendingCall ==
    (LoadedPendingCall /\ PastResuming) =>
        LET n == Len(loaded)
            X == Last(loaded)
        IN  /\ Len(history) > n
            /\ SubSeq(history, 1, n) = loaded
            /\ history[n + 1].kind = "UserToolResult"
            /\ history[n + 1].call_id = X.call_id
            /\ history[n + 1].id = X.id
            /\ Len(log) > n
            /\ Transcript[n + 1] = history[n + 1]
            /\ Cardinality({i \in (n + 1)..Len(history) :
                              history[i].kind = "UserToolResult"}) = 1
            /\ (nRequests = 0 => nReads = 0 /\ pc \in {"LoopTop", "Requesting"})
            /\ (nRequests = 0 /\ pc = "LoopTop" => resume)
            /\ (nRequests = 1 => sent = SubSeq(history, 1, n + 1))

C1_Witness ==
    /\ LoadedPendingCall
    /\ Last(loaded).call_id = "c2"
    /\ pc = "Streaming"
    /\ nRequests = 1
    /\ nReads = 0
    /\ Last(sent).kind = "UserToolResult"

(* C2: in the durable transcript every tool-call entry that is not the last
   entry is immediately followed by a UserToolResult with the same call_id, and
   by no second one; so no UserText ever follows an unanswered tool call. *)
C2_ToolCallAnsweredNext ==
    \A i \in 1..(Len(log) - 1) :
        Transcript[i].kind = "AssistantToolCall" =>
            /\ Transcript[i + 1].kind = "UserToolResult"
            /\ Transcript[i + 1].call_id = Transcript[i].call_id
            /\ (i + 2 <= Len(log) => Transcript[i + 2].kind # "UserToolResult")

C2_Witness ==
    /\ Len(log) >= 4
    /\ Transcript[2].kind = "AssistantToolCall"
    /\ Transcript[3].kind = "UserToolResult"
    /\ Transcript[4].kind = "UserText"

(* C3: when the stream delivers a tool-call chunk, the sidecar records the
   matching PendingCall, exactly one AssistantToolCall is appended for it, the
   process goes to Ended, and once Ended it takes no further chunk, reads no
   input and issues no request. *)
C3_ToolCallEndsProcess ==
    /\ [](TookCall => pc \in {"AppendCall", "Ended"})
    /\ [](TookCall /\ pc = "AppendCall" =>
            /\ sidecar # <<>>
            /\ PendingCallOf(sidecar[1]) = PendingCallFor(Last(Consumed).chunk.call))
    /\ [](TookCall /\ pc = "Ended" =>
            /\ log # <<>>
            /\ Last(Transcript) = AssistantToolCall(Last(Consumed).chunk.call)
            /\ Cardinality({i \in (turnBase + 1)..Len(log) :
                              Transcript[i].kind = "AssistantToolCall"}) = 1
            /\ Len(log) = turnBase + NumTextChunks(Consumed) + 1)
    /\ [][pc = "AppendCall" /\ pc' = "Ended" =>
            /\ sidecar' # <<>>
            /\ PendingCallOf(sidecar'[1]) = PendingCallFor(chunk[1].call)]_vars
    /\ [][pc = "Ended" /\ pc' # "Load" =>
            UNCHANGED <<pc, log, history, stream, nReads, nRequests>>]_vars

C3_Witness ==
    /\ TookCall
    /\ pc = "Ended"
    /\ stream # <<>>
    /\ Last(Transcript).kind = "AssistantToolCall"
    /\ Last(Transcript).call_id = "c2"

\* The transcript's last entry is a tool call, so far unanswered.
LastIsToolCall == log # <<>> /\ Last(Transcript).kind = "AssistantToolCall"

(* C4 as stated: a PendingCall exists in the sidecar if and only if the
   transcript's last entry is an unanswered AssistantToolCall. *)
C4_SidecarIffPending == (sidecar # <<>>) <=> LastIsToolCall

(* C4 as amended: if the transcript's last entry is an unanswered tool call,
   tool_call.json exists and holds the record of that very call or the result
   supplied for it. (The file is never removed, so the converse fails.) *)
C4_PendingHasSidecar ==
    LastIsToolCall =>
        /\ sidecar # <<>>
        /\ \/ PendingCallOf(sidecar[1]) =
                [call_id |-> Last(Transcript).call_id,
                 function_name |-> Last(Transcript).name,
                 arguments |-> Last(Transcript).arguments]
           \/ sidecar[1] \in ResultTexts

C4_Witness ==
    /\ LastIsToolCall
    /\ Len(log) >= 4
    /\ sidecar # <<>>
    /\ PendingCallOf(sidecar[1]).call_id = Last(Transcript).call_id
    /\ pc = "Ended"

(* C5: a load returns exactly the messages appended so far, over all runs, in
   append order; when no store exists yet it returns the empty transcript. *)
C5_LoadReturnsAppended ==
    /\ [](pc = "Resuming" => history = appended)
    /\ [][pc = "Load" /\ ~logExists /\ pc' = "Resuming" => history' = <<>>]_vars

C5_Witness ==
    /\ pc = "Resuming"
    /\ prevExit # "none"
    /\ {history[i].kind : i \in 1..Len(history)} =
          {"UserText", "UserToolResult", "AssistantText", "AssistantToolCall"}

(* C6: each message is durable as soon as its append returns: at a crash, at
   any point, the store holds every message appended so far, and the process
   started after the crash loads all of them, in order. *)
C6_DurableAtCrash ==
    /\ [][pc # "Crashed" /\ pc' = "Crashed" =>
            /\ log' = log
            /\ Transcript' = appended']_vars
    /\ [](pc = "Resuming" /\ prevExit = "Crashed" => IsPrefix(appended, history))

C6_Witness ==
    /\ pc = "Resuming"
    /\ prevExit = "Crashed"
    /\ Len(history) >= 2
    /\ Last(history).kind = "AssistantText"

(* C7: every step, startup, crash and restart included, leaves the lines the
   store had as a prefix of the lines it has afterwards. *)
C7_StoreOnlyGrows == [][IsPrefix(log, log')]_vars

C7_Witness ==
    /\ pc = "Resuming"
    /\ prevExit # "none"
    /\ Len(log) >= 2

\* A stream of n Text chunks followed by Final.
TextsThenFinal(items) ==
    /\ items # <<>>
    /\ Last(items) = OkItem(FinalChunk)
    /\ \A i \in 1..(Len(items) - 1) : items[i].ok /\ items[i].chunk.kind = "Text"

\* The process has taken the whole of such a stream and not yet read input.
TextTurnDone ==
    /\ nRequests >= 1
    /\ TextsThenFinal(turnStream)
    /\ stream = <<>>
    /\ pc \in {"Streaming", "LoopTop", "AwaitingInput"}

(* C8: a turn whose stream is n Text chunks followed by Final appends exactly n
   AssistantText messages, one per chunk in chunk order, and the process then
   goes to AwaitingInput, where its next step reads user input. *)
C8_TextTurn ==
    /\ [](TextTurnDone =>
            /\ Len(log) = turnBase + Len(turnStream) - 1
            /\ \A i \in 1..(Len(turnStream) - 1) :
                  Transcript[turnBase + i] = AssistantText(turnStream[i].chunk.text)
            /\ ~resume)
    /\ [][TextTurnDone /\ pc = "Streaming" /\ pc' # "Crashed" => pc' = "LoopTop"]_vars
    /\ [][TextTurnDone /\ pc = "LoopTop" /\ pc' # "Crashed" => pc' = "AwaitingInput"]_vars
    /\ [][TextTurnDone /\ pc = "AwaitingInput" /\ pc' \notin {"Crashed", "Panicked"} =>
            nReads' = nReads + 1 /\ nRequests' = nRequests]_vars

C8_Witness ==
    /\ TextTurnDone
    /\ pc = "AwaitingInput"
    /\ Len(turnStream) = 3
    /\ turnStream[1].chunk.text = <<"a">>
    /\ turnStream[2].chunk.text = <<"b">>

\* An empty or whitespace-only line.
BlankLine(l) == \A i \in 1..Len(l) : l[i] = " "

(* C9: a blank line read at AwaitingInput takes the process to Ended with no
   message appended, the sidecar untouched and no completion request issued. *)
C9_BlankLineEnds ==
    /\ [][pc = "GotLine" /\ BlankLine(line) /\ pc' # "Crashed" =>
            /\ pc' = "Ended"
            /\ UNCHANGED <<logExists, log, sidecar, history, appended, nRequests>>]_vars
    /\ [][pc = "Ended" /\ pc' # "Load" => UNCHANGED <<log, appended, nRequests>>]_vars

C9_Witness ==
    /\ pc = "Ended"
    /\ nReads >= 1
    /\ line = <<" ">>
    /\ log # <<>>

\* Some line of the store is no serialized Message.
HasMalformedLine == \E i \in 1..Len(log) : Transcript[i] = Malformed

(* C10: loading a store with a malformed line is fatal (CorruptHistory) and
   yields no partial transcript; that process issues no request, reads no
   input and appends nothing. *)
C10_CorruptHistoryFatal ==
    /\ [][pc = "Load" /\ logExists /\ HasMalformedLine /\ pc' # "Crashed" =>
            /\ pc' = "Panicked"
            /\ fault' = "CorruptHistory"
            /\ history' = <<>>
            /\ loaded' = <<>>
            /\ nReads' = 0
            /\ nRequests' = 0
            /\ UNCHANGED <<log, appended>>]_vars
    /\ [][pc = "Panicked" /\ pc' # "Load" =>
            UNCHANGED <<pc, fault, history, appended, nReads, nRequests>>]_vars

C10_Witness ==
    /\ pc = "Panicked"
    /\ fault = "CorruptHistory"
    /\ Len(log) >= 2
    /\ Transcript[1] # Malformed
    /\ history = <<>>

\* The last item the process took from the stream is an error.
StreamFailed == Consumed # <<>> /\ ~Last(Consumed).ok

(* C11: a provider failure, of the completion call or of the stream in
   mid-turn, is fatal: the process is stopped in an error state and does not
   go back to AwaitingInput, read input or issue another request. *)
C11_ProviderFailureFatal ==
    /\ (fault = "ProviderFailure" => pc = "Panicked")
    /\ (StreamFailed => pc = "Panicked")

\* The next item of the stream is a chunk that is no Text, ToolCall or Final.
UnsupportedNext ==
    /\ pc = "Streaming"
    /\ stream # <<>>
    /\ Head(stream).ok
    /\ Head(stream).chunk.kind \notin {"Text", "ToolCall", "Final"}

(* C12: a chunk of any kind other than Text, ToolCall or Final makes the
   process fail fatally (UnsupportedChunk): it is not skipped, nothing is
   appended or written for it, and the failed process does nothing more. *)
C12_UnsupportedChunkFatal ==
    /\ [][UnsupportedNext /\ pc' # "Crashed" =>
            /\ pc' = "Panicked"
            /\ fault' = "UnsupportedChunk"
            /\ UNCHANGED <<logExists, log, sidecar, history, appended>>]_vars
    /\ [](Consumed # <<>> /\ Last(Consumed).ok
            /\ Last(Consumed).chunk.kind \notin {"Text", "ToolCall", "Final"}
          => pc = "Panicked" /\ fault = "UnsupportedChunk")
    /\ [][pc = "Panicked" /\ fault = "UnsupportedChunk" /\ pc' # "Load" =>
            UNCHANGED <<pc, log, history, stream, nReads, nRequests>>]_vars

C12_Witness ==
    /\ pc = "Panicked"
    /\ fault = "UnsupportedChunk"
    /\ Len(Consumed) = 2
    /\ Consumed[1].chunk.kind = "Text"
    /\ stream # <<>>
    /\ Len(log) = turnBase + 1

\* The line feeds that the text of a serialized message puts into the store.
LineBreaks(json) ==
    LET c == json.content[1]
        t == IF "text" \in DOMAIN c THEN c.text
             ELSE IF "content" \in DOMAIN c THEN c.content[1].text
             ELSE <<>>
    IN  Cardinality({i \in 1..Len(t) : t[i] = "\n"})

(* C13: deserialize(serialize(m)) = m for every Message value m of the four
   variants, and each message is serialized as exactly one line of the store:
   what is written has no line feed of its own, line i of the store reads back
   as message i, and load returns the messages that were written. *)
C13_RoundTrip ==
    /\ \A m \in Messages :
          LineBreaks(Serialize(m)) = 0 /\ Deserialize(Serialize(m)) = m
    /\ Len(log) <= Len(history)
    /\ \A i \in 1..Len(log) :
          LineBreaks(log[i]) = 0 /\ Deserialize(log[i]) = history[i]
    /\ pc # "Panicked"
    /\ (pc = "CodecDone" => Len(log) = Len(history) /\ loaded = history)

C13_Witness ==
    /\ pc = "CodecDone"
    /\ Len(log) = 2
    /\ loaded = history
    /\ history[1].kind = "UserToolResult"
    /\ history[1].content = <<"\\", "\n">>
    /\ history[1].call_id = NULL
    /\ history[2].kind = "AssistantToolCall"
    /\ log[1].content[1].content[1].text = <<"\\", "\\", "\\", "n">>

\* The call that tool_call.json records, as the program wrote it, has no
\* AssistantToolCall message in the transcript.
SidecarAheadOfTranscript ==
    \E c \in ToolCalls :
        /\ sidecar = <<PrettyJson(c)>>
        /\ \A i \in 1..Len(log) : Transcript[i] # AssistantToolCall(c)

(* C14: for a tool-call chunk the sidecar is written once, when the chunk is
   taken from the stream and before its AssistantToolCall message is appended;
   the append that follows writes no sidecar, and no other step of a process
   does. A crash between the two leaves a transcript whose last entry is not
   that tool call, and the next process does not resume for it. *)
C14_SidecarBeforeAppend ==
    /\ [][pc = "Streaming" /\ stream # <<>> /\ Head(stream).ok
            /\ Head(stream).chunk.kind = "ToolCall" /\ pc' # "Crashed" =>
            /\ pc' = "AppendCall"
            /\ sidecar' = <<PrettyJson(Head(stream).chunk.call)>>
            /\ chunk' = <<Head(stream).chunk>>
            /\ log' = log]_vars
    /\ [][pc = "AppendCall" /\ pc' # "Crashed" =>
            /\ sidecar' = sidecar
            /\ Transcript' = Append(Transcript, AssistantToolCall(chunk[1].call))
            /\ pc' = "Ended"]_vars
    /\ [][sidecar' # sidecar /\ pc \in Running => pc = "Streaming" /\ pc' = "AppendCall"]_vars
    /\ [](pc = "AppendCall" =>
            /\ sidecar = <<PrettyJson(chunk[1].call)>>
            /\ ~LastIsToolCall)
    /\ [][pc = "AppendCall" /\ pc' = "Crashed" => log' = log /\ sidecar' = sidecar]_vars
    /\ [][pc = "Resuming" /\ ~LastIsToolCall /\ pc' # "Crashed" =>
            /\ pc' = "LoopTop"
            /\ resume' = FALSE
            /\ UNCHANGED <<log, sidecar, history, nRequests>>]_vars
    /\ [](~LoadedPendingCall => ~resume)

C14_Witness ==
    /\ pc = "AwaitingInput"
    /\ prevExit = "Crashed"
    /\ SidecarAheadOfTranscript
    /\ ~resume
    /\ nRequests = 0
    /\ log # <<>>
    /\ history = Transcript

(* C15: every completion request is issued with the entire current transcript
   as context: the history sent equals, message for message and in order, the
   durable transcript at the moment of the request, and the history in memory
   never diverges from the persisted log. *)
C15_RequestSendsTranscript ==
    /\ [][nRequests' = nRequests + 1 =>
            /\ pc = "Requesting"
            /\ sent' = history
            /\ sent' = Transcript
            /\ log' = log]_vars
    /\ [](pc \in Running \ {"Load"} => history = Transcript)

C15_Witness ==
    /\ pc = "Streaming"
    /\ nRequests = 2
    /\ loaded # <<>>
    /\ Len(sent) = 4
    /\ sent = Transcript
    /\ sent[3].kind = "AssistantText"
    /\ sent[4].kind = "UserText"

(* C16: resumption skips user input for exactly one turn. The resume flag is
   up only before the first request of a process that loaded a pending call;
   after any turn the process goes to AwaitingInput and reads a line before
   the next request, so that no two requests follow each other without a read
   of user input between them. *)
C16_ResumeSkipsOneRead ==
    /\ [](resume => LoadedPendingCall /\ pc = "LoopTop" /\ nRequests = 0 /\ nReads = 0)
    /\ [][nRequests' = nRequests + 1 =>
            nReads = nRequests + (IF LoadedPendingCall THEN 0 ELSE 1)]_vars
    /\ [][pc = "LoopTop" /\ nRequests >= 1 /\ pc' # "Crashed" =>
            pc' = "AwaitingInput" /\ nRequests' = nRequests /\ ~resume']_vars
    /\ [][pc = "AwaitingInput" /\ pc' \notin {"Crashed", "Panicked"} =>
            pc' = "GotLine" /\ nReads' = nReads + 1 /\ nRequests' = nRequests]_vars
    /\ [](pc \in {"AwaitingInput", "GotLine"} =>
            nReads = nRequests + (IF pc = "GotLine" THEN 1 ELSE 0)
                        - (IF LoadedPendingCall THEN 1 ELSE 0))

C16_Witness ==
    /\ LoadedPendingCall
    /\ pc = "Streaming"
    /\ nRequests = 2
    /\ nReads = 1
    /\ Len(sent) = 4
    /\ sent[3].kind = "UserToolResult"
    /\ sent[4].kind = "UserText"

\* The next item of the stream is a Final chunk.
FinalNext ==
    /\ pc = "Streaming"
    /\ stream # <<>>
    /\ Head(stream).ok
    /\ Head(stream).chunk.kind = "Final"

\* The stream of the current turn is a Final chunk and nothing else.
OnlyFinal == nRequests >= 1 /\ turnStream = <<OkItem(FinalChunk)>>

(* C17: a Final chunk appends no message and changes neither the transcript
   nor the sidecar. A turn whose stream is only Final completes without error
   and goes to AwaitingInput with the transcript as it was when the request
   was issued. *)
C17_FinalAppendsNothing ==
    /\ [][FinalNext /\ pc' # "Crashed" =>
            /\ stream' = Tail(stream)
            /\ pc' = "Streaming"
            /\ fault' = fault
            /\ UNCHANGED <<logExists, log, sidecar, history, appended>>]_vars
    /\ [](OnlyFinal /\ pc \in {"Streaming", "LoopTop", "AwaitingInput"} =>
            /\ fault = "none"
            /\ Len(log) = turnBase
            /\ Transcript = sent
            /\ history = sent)
    /\ [][OnlyFinal /\ pc = "Streaming" /\ stream = <<>> /\ pc' # "Crashed" =>
            pc' = "LoopTop"]_vars
    /\ [][OnlyFinal /\ pc = "LoopTop" /\ pc' # "Crashed" =>
            pc' = "AwaitingInput" /\ log' = log /\ sidecar' = sidecar]_vars

C17_Witness ==
    /\ OnlyFinal
    /\ pc = "AwaitingInput"
    /\ stream = <<>>
    /\ Transcript = sent
    /\ Len(sent) = 1
    /\ sidecar = <<>>

(* C18: whenever the last entry of the transcript is an AssistantToolCall, the
   most recent write of the sidecar by the program was for that same call,
   whatever turns, crashes (between the sidecar write and the append too) and
   restarts came before; and a process that is running never writes the
   sidecar while the last entry is a tool call. What resume reads is then the
   record of that call, or what the tool execution put in its place. *)
C18_SidecarMatchesLastCall ==
    /\ [](LastIsToolCall =>
            /\ written # <<>>
            /\ written[1] = PrettyJson(Last(Transcript))
            /\ PendingCallOf(written[1]) = PendingCallFor(Last(Transcript)))
    /\ [][LastIsToolCall => written' = written]_vars
    /\ [](pc = "Resuming" /\ LastIsToolCall /\ sidecar # <<>> =>
            sidecar = written \/ sidecar[1] \in ResultTexts)

C18_Witness ==
    /\ pc = "Ended"
    /\ Len(log) = 4
    /\ Transcript[2].kind = "AssistantToolCall"
    /\ Transcript[2].id = "t1"
    /\ Transcript[3].kind = "UserToolResult"
    /\ LastIsToolCall
    /\ Last(Transcript).id = "t2"
    /\ written = <<PrettyJson(Last(Transcript))>>
    /\ sidecar = written

\* The sidecar cannot be read while the last entry of the transcript is a call.
SidecarUnavailable == LastIsToolCall /\ sidecar \in {<<>>, <<InvalidUtf8>>}

(* C19: if the last entry of the transcript is an unanswered AssistantToolCall
   and the sidecar file is missing or unreadable at process start, the process
   fails before it appends anything: the transcript is left unchanged and no
   completion request is issued. *)
C19_MissingSidecarFatal ==
    /\ [][pc = "Resuming" /\ SidecarUnavailable /\ pc' # "Crashed" =>
            /\ pc' = "Panicked"
            /\ fault' = "SidecarMissing"
            /\ UNCHANGED <<logExists, log, sidecar, history, appended, nReads,
                           nRequests>>]_vars
    /\ [](pc = "Panicked" /\ fault = "SidecarMissing" =>
            /\ LastIsToolCall
            /\ Transcript = loaded
            /\ nRequests = 0
            /\ nReads = 0)
    /\ [](SidecarUnavailable /\ pc \in Running =>
            pc \in {"Load", "Resuming"} /\ nRequests = 0 /\ sent = <<>>)
    /\ [][pc = "Panicked" /\ fault = "SidecarMissing" /\ pc' # "Load" =>
            UNCHANGED <<pc, logExists, log, history, appended, nRequests>>]_vars

C19_Witness ==
    /\ pc = "Panicked"
    /\ fault = "SidecarMissing"
    /\ sidecar = <<InvalidUtf8>>
    /\ LastIsToolCall
    /\ Len(log) = 4
    /\ Transcript = loaded
    /\ Transcript = appended
    /\ nRequests = 0

UserKinds == {"UserText", "UserToolResult"}

(* C20: at every completion request the history sent as context is not empty
   and its last message is a user message: the UserText of the line just read,
   or the UserToolResult just made at resume. No request is issued, nor
   attempted, with an empty history or with an assistant message last, also
   when the store exists but is empty at startup. *)
C20_RequestEndsWithUserMessage ==
    /\ [](pc = "Requesting" => history # <<>> /\ Last(history).kind \in UserKinds)
    /\ [](fault # "EmptyHistory")
    /\ [][nRequests' = nRequests + 1 =>
            /\ sent' # <<>>
            /\ Last(sent').kind \in UserKinds
            /\ IF nReads = 0
               THEN /\ LoadedPendingCall
                    /\ Last(sent').kind = "UserToolResult"
                    /\ Len(sent') = Len(loaded) + 1
               ELSE Last(sent') = UserText(line)]_vars
    /\ [](nRequests >= 1 => sent # <<>> /\ Last(sent).kind \in UserKinds)

C20_Witness ==
    /\ pc = "Streaming"
    /\ prevExit = "Crashed"
    /\ logExists
    /\ loaded = <<>>
    /\ nRequests = 1
    /\ sent = <<UserText(line)>>
    /\ appended = sent

====
